---- MODULE Spec2Model ----
(***************************************************************************)
(* Model of instafy's polling loop (src/main.py): main() polls Spotify for *)
(* the currently playing track, publishes "Listening to: ..." as the       *)
(* Instagram note when the track differs from the remembered one, and      *)
(* schedules the next poll.                                                *)
(*                                                                         *)
(* Time is counted in ticks of 1/2000 second, so that the float value      *)
(* (duration_ms - progress_ms) / 2 / 1000 seconds is an exact integer.     *)
(* Python's None is the empty tuple, a present value x is <<x>>.           *)
(***************************************************************************)
EXTENDS Integers, Sequences, FiniteSets, TLC

VARIABLES pc, boot, prev_song_title, prev_artist_name, next_poll_time, now,
          note, published, polls, iter, last_poll_at, failed_track,
          calc_pc, calc_duration, calc_p1, calc_p2, calc_r1, calc_r2,
          calc_fallback

vars == <<pc, boot, prev_song_title, prev_artist_name, next_poll_time, now,
          note, published, polls, iter, last_poll_at, failed_track,
          calc_pc, calc_duration, calc_p1, calc_p2, calc_r1, calc_r2,
          calc_fallback>>

mainVars == <<pc, boot, prev_song_title, prev_artist_name, next_poll_time, now,
              note, published, polls, iter, last_poll_at, failed_track>>

calcVars == <<calc_pc, calc_duration, calc_p1, calc_p2, calc_r1, calc_r2,
              calc_fallback>>

----------------------------------------------------------------------------
(* Bounds of the model *)

\* the clock is explored up to this many seconds
MaxTime == 640

\* number of polls explored in one run
MaxPolls == 3

\* durations and progress values are multiples of StepMs milliseconds
StepMs == 15001

\* largest multiple of StepMs used as a duration
MaxSteps == 4

\* time that passes inside one poll iteration, between the reading of the
\* clock in line 147 and the one in line 171, in ticks
Latency == 2000

\* long durations are multiples of ten minutes up to this many, and their
\* neighbours
MaxLongSteps == 4

----------------------------------------------------------------------------
(* Values *)

None == <<>>

Some(x) == <<x>>

\* a value of the wrong type in a numeric field of the Spotify response
Malformed == <<"str", "bad">>

TicksPerSecond == 2000

TicksPerMs == TicksPerSecond \div 1000

Max(a, b) == IF a >= b THEN a ELSE b

\* (title, artist) of the tracks played: two share the title, two the artist
Tracks == {<<"A", "X">>, <<"A", "Y">>, <<"B", "X">>}

DurationsMs == {k * StepMs : k \in 0..MaxSteps}

\* multiples of StepMs up to beyond the longest duration, and the three
\* values around the point where half the remaining time of the longest
\* duration is 30 seconds
ProgressMs ==
    {k * StepMs : k \in 0..(MaxSteps + 1)}
    \cup {p \in {MaxSteps * StepMs - 2 * 30 * 1000 + e : e \in {-1, 0, 1}} : p >= 0}

\* Python truthiness of a str-or-None value (main.py line 155)
Truthy(v) == v /= None /\ v /= Some("")

----------------------------------------------------------------------------
(* Spotify: current_user_playing_track() and get_current_song *)

\* (duration_ms, progress_ms) of the tracks the loop is shown
LoopTimings ==
    LET D == MaxSteps * StepMs IN
    { <<Some(D), Some(0)>>, <<Some(D), Some(StepMs)>>, <<Some(D), Some(D + StepMs)>>,
      <<None, None>>, <<Malformed, Some(0)>> }

\* what spotify_object.current_user_playing_track() can do
Responses ==
    {[kind |-> k, name |-> None, artist |-> None,
      duration_ms |-> None, progress_ms |-> None] :
        k \in {"raise", "none", "no_item", "missing"}}
    \cup
    {[kind |-> IF Malformed \in {dp[1], dp[2]} THEN "malformed" ELSE "track",
      name |-> Some(tr[1]), artist |-> Some(tr[2]),
      duration_ms |-> dp[1], progress_ms |-> dp[2]] :
        tr \in Tracks, dp \in LoopTimings}

\* song_title, artist_name, duration_ms, progress_ms: an exception of the
\* call ("raise") or of the field accesses ("missing") is caught, a response
\* of None or without item is no song, all else is returned as it came
get_current_song(resp) ==
    IF resp.kind \in {"raise", "missing"}
    THEN <<None, None, None, None>>
    ELSE IF resp.kind \in {"none", "no_item"}
    THEN <<None, None, None, None>>
    ELSE <<resp.name, resp.artist, resp.duration_ms, resp.progress_ms>>

----------------------------------------------------------------------------
(* Instagram: login_instagram and update_instagram_note *)

CreateOutcomes == {"ok", "LoginRequired", "Error"}

LoginOutcomes == {"ok", "ChallengeRequired", "TwoFactorRequired", "Error"}

\* client.login(...) either returns or its exception is re-raised
login_instagram(lg) == [raised |-> lg /= "ok", exc |-> lg]

\* update_instagram_note retrying in a loop: a second LoginRequired leads to
\* another login and another create_note
update_instagram_note_retry_loop(status, c1, lg, c2) ==
    LET first == <<"create_note", c1>>
        out(calls, ok) ==
            [calls |-> calls, status_set |-> ok, text |-> status,
             ret |-> None, raised |-> FALSE]
    IN  IF c1 = "ok" THEN out(<<first>>, TRUE)
        ELSE IF c1 = "LoginRequired"
        THEN IF login_instagram(lg).raised
             THEN out(<<first, <<"login", lg>> >>, FALSE)
             ELSE IF c2 = "LoginRequired"
             THEN out(<<first, <<"login", lg>>, <<"create_note", c2>>,
                        <<"login", lg>>, <<"create_note", "ok">> >>, TRUE)
             ELSE out(<<first, <<"login", lg>>, <<"create_note", c2>> >>, c2 = "ok")
        ELSE out(<<first>>, FALSE)

\* update_instagram_note handling every exception of create_note by a re-login
update_instagram_note_relogin_any(status, c1, lg, c2) ==
    LET first == <<"create_note", c1>>
        out(calls, ok) ==
            [calls |-> calls, status_set |-> ok, text |-> status,
             ret |-> None, raised |-> FALSE]
    IN  IF c1 = "ok" THEN out(<<first>>, TRUE)
        ELSE IF login_instagram(lg).raised
             THEN out(<<first, <<"login", lg>> >>, FALSE)
             ELSE out(<<first, <<"login", lg>>, <<"create_note", c2>> >>, c2 = "ok")

\* update_instagram_note that logs in again but does not call create_note again
update_instagram_note_no_retry(status, c1, lg, c2) ==
    LET first == <<"create_note", c1>>
        out(calls, ok) ==
            [calls |-> calls, status_set |-> ok, text |-> status,
             ret |-> None, raised |-> FALSE]
    IN  IF c1 = "ok" THEN out(<<first>>, TRUE)
        ELSE IF c1 = "LoginRequired"
        THEN out(<<first, <<"login", lg>> >>, FALSE)
        ELSE out(<<first>>, FALSE)

\* update_instagram_note letting the exception of a failed re-login out
update_instagram_note_propagates(status, c1, lg, c2) ==
    LET first == <<"create_note", c1>>
        out(calls, ok, exc) ==
            [calls |-> calls, status_set |-> ok, text |-> status,
             ret |-> None, raised |-> exc]
    IN  IF c1 = "ok" THEN out(<<first>>, TRUE, FALSE)
        ELSE IF c1 = "LoginRequired"
        THEN IF login_instagram(lg).raised
             THEN out(<<first, <<"login", lg>> >>, FALSE, TRUE)
             ELSE out(<<first, <<"login", lg>>, <<"create_note", c2>> >>,
                      c2 = "ok", FALSE)
        ELSE out(<<first>>, FALSE, FALSE)

\* c1: outcome of the first create_note, lg: of client.login, c2: of the
\* second create_note; calls is the sequence of client calls made
update_instagram_note(status, c1, lg, c2) ==
    LET first == <<"create_note", c1>>
        out(calls, ok) ==
            [calls |-> calls, status_set |-> ok, text |-> status,
             ret |-> None, raised |-> FALSE]
    IN  IF c1 = "ok" THEN out(<<first>>, TRUE)
        ELSE IF c1 = "LoginRequired"
        THEN IF login_instagram(lg).raised
             THEN out(<<first, <<"login", lg>> >>, FALSE)
             ELSE out(<<first, <<"login", lg>>, <<"create_note", c2>> >>, c2 = "ok")
        ELSE out(<<first>>, FALSE)

\* the value of the publish fields of an iteration that did not publish
NoPublish ==
    [calls |-> <<>>, status_set |-> FALSE, text |-> "",
     ret |-> None, raised |-> FALSE]

----------------------------------------------------------------------------
(* Scheduling *)

\* calculate_next_poll_time without the 30 second floor
calculate_next_poll_time_no_floor(duration_ms, progress_ms) ==
    IF duration_ms = None \/ progress_ms = None
    THEN [raised |-> FALSE, value |-> 15 * 60 * TicksPerSecond]
    ELSE IF duration_ms = Malformed \/ progress_ms = Malformed
    THEN [raised |-> TRUE, value |-> 0]
    ELSE LET remaining_ms == duration_ms[1] - progress_ms[1]
             half_remaining == (remaining_ms * TicksPerMs) \div 2
         IN  [raised |-> FALSE, value |-> half_remaining]

\* calculate_next_poll_time taking the elapsed time for the remaining time
calculate_next_poll_time_elapsed(duration_ms, progress_ms) ==
    IF duration_ms = None \/ progress_ms = None
    THEN [raised |-> FALSE, value |-> 15 * 60 * TicksPerSecond]
    ELSE IF duration_ms = Malformed \/ progress_ms = Malformed
    THEN [raised |-> TRUE, value |-> 0]
    ELSE LET remaining_ms == progress_ms[1]
             half_remaining == (remaining_ms * TicksPerMs) \div 2
         IN  [raised |-> FALSE,
              value |-> Max(half_remaining, 30 * TicksPerSecond)]

\* calculate_next_poll_time waiting for all of the remaining time
calculate_next_poll_time_no_halving(duration_ms, progress_ms) ==
    IF duration_ms = None \/ progress_ms = None
    THEN [raised |-> FALSE, value |-> 15 * 60 * TicksPerSecond]
    ELSE IF duration_ms = Malformed \/ progress_ms = Malformed
    THEN [raised |-> TRUE, value |-> 0]
    ELSE LET remaining_ms == duration_ms[1] - progress_ms[1]
         IN  [raised |-> FALSE,
              value |-> Max(remaining_ms * TicksPerMs, 30 * TicksPerSecond)]

\* calculate_next_poll_time with a floor of 10 seconds
calculate_next_poll_time_floor_10(duration_ms, progress_ms) ==
    IF duration_ms = None \/ progress_ms = None
    THEN [raised |-> FALSE, value |-> 15 * 60 * TicksPerSecond]
    ELSE IF duration_ms = Malformed \/ progress_ms = Malformed
    THEN [raised |-> TRUE, value |-> 0]
    ELSE LET remaining_ms == duration_ms[1] - progress_ms[1]
             half_remaining == (remaining_ms * TicksPerMs) \div 2
         IN  [raised |-> FALSE,
              value |-> Max(half_remaining, 10 * TicksPerSecond)]

\* seconds, as ticks: max(half_remaining_ms / 1000, 30), or the default 15 * 60
calculate_next_poll_time(duration_ms, progress_ms) ==
    IF duration_ms = None \/ progress_ms = None
    THEN [raised |-> FALSE, value |-> 15 * 60 * TicksPerSecond]
    ELSE IF duration_ms = Malformed \/ progress_ms = Malformed
    THEN [raised |-> TRUE, value |-> 0]
    ELSE LET remaining_ms == duration_ms[1] - progress_ms[1]
             half_remaining == (remaining_ms * TicksPerMs) \div 2
         IN  [raised |-> FALSE,
              value |-> Max(half_remaining, 30 * TicksPerSecond)]

\* random.randint(1 * 60, 20 * 60): a fallback that can be as short as a minute
FallbackChoices_short == {1 * 60, 15 * 60, 20 * 60}

\* random.randint(10 * 60, 20 * 60), in seconds
FallbackChoices == {10 * 60, 15 * 60, 20 * 60}

\* the test of line 155 left out: every result is taken for a track
HasTrack_any(song_title, artist_name) == TRUE

\* if song_title and artist_name
HasTrack(song_title, artist_name) == Truthy(song_title) /\ Truthy(artist_name)

\* song_title != prev_song_title or artist_name != prev_artist_name
SongChanged(song_title, artist_name, prev_title, prev_artist) ==
    song_title /= prev_title \/ artist_name /= prev_artist

\* str(v) as an f-string renders it
Str(v) == IF v = None THEN "None" ELSE v[1]

\* f"Listening to: {song_title} - {artist_name}"
StatusText(song_title, artist_name) ==
    "Listening to: " \o Str(song_title) \o " - " \o Str(artist_name)

----------------------------------------------------------------------------
(* main() *)

\* the inputs of update_instagram_note that lead to different call sequences
PublishInputs ==
    {<<c1, lg, c2>> \in CreateOutcomes \X LoginOutcomes \X CreateOutcomes :
        /\ (c1 /= "LoginRequired" => lg = "ok")
        /\ ((c1 /= "LoginRequired" \/ lg /= "ok") => c2 = "ok")}

\* the test of line 148 left out: every iteration polls
PollDue_always(current_time, poll_time) == TRUE

\* if current_time < next_poll_time: sleep, else poll (line 148)
PollDue(current_time, poll_time) == ~(current_time < poll_time)

\* get_azerbaijan_time(timestamp): pytz.timezone('Asia/Baku') raises
\* UnknownTimeZoneError when the zone is not in the installed time zone data
get_azerbaijan_time(timestamp, zone_known) == [raised |-> ~zone_known]

\* the remembered track forgotten when the observed one is not a new one
Remember_reset(changed, observed, remembered) ==
    IF changed THEN observed ELSE <<None, None>>

\* prev_song_title, prev_artist_name after lines 156-163: the observed track
\* when it was a new one, whatever update_instagram_note did
Remember(changed, observed, remembered) ==
    IF changed THEN observed ELSE remembered

\* the record of a loop iteration that made no poll
IdleIter(kind) ==
    [kind |-> kind, resp_kind |-> "", obs |-> <<None, None, None, None>>,
     called |-> FALSE, inputs |-> <<>>, pub |-> NoPublish, interval |-> 0,
     prev_before |-> <<prev_song_title, prev_artist_name>>,
     published_before |-> published,
     current_time |-> now, scheduled_at |-> now,
     due |-> now >= next_poll_time, assigned |-> <<>>, increases |-> <<>>,
     raised_at |-> "", advanced |-> FALSE, since_last |-> None,
     failed_before |-> failed_track]

NoBoot ==
    [exit_code |-> None, spotify_auth_calls |-> 0, login_calls |-> 0,
     inputs |-> <<>>, zone_known |-> TRUE]

MainInit ==
    /\ pc = "start"
    /\ boot = NoBoot
    /\ prev_song_title = None
    /\ prev_artist_name = None
    /\ next_poll_time = 0
    /\ now = 0
    /\ note = ""
    /\ published = <<None, None>>
    /\ polls = 0
    /\ last_poll_at = None
    /\ failed_track = <<None, None>>
    /\ iter = [kind |-> "none", resp_kind |-> "", obs |-> <<None, None, None, None>>,
               called |-> FALSE, inputs |-> <<>>, pub |-> NoPublish,
               interval |-> 0,
               prev_before |-> <<None, None>>, published_before |-> <<None, None>>,
               current_time |-> 0, scheduled_at |-> 0,
               due |-> FALSE, assigned |-> <<>>, increases |-> <<>>,
               raised_at |-> "", advanced |-> FALSE, since_last |-> None,
               failed_before |-> <<None, None>>]

CalcOff ==
    /\ calc_pc = "off"
    /\ calc_duration = None
    /\ calc_p1 = None
    /\ calc_p2 = None
    /\ calc_r1 = None
    /\ calc_r2 = None
    /\ calc_fallback = None

Init == MainInit /\ CalcOff

\* main() going on into the loop after a failed first login
startup_ignores_login(username_set, spotify_auth, lg) ==
    LET in == <<username_set, spotify_auth, lg>> IN
    IF ~username_set
    THEN [pc |-> "exited",
          boot |-> [exit_code |-> Some(1), spotify_auth_calls |-> 0,
                    login_calls |-> 0, inputs |-> in,
                    zone_known |-> TRUE]]
    ELSE IF spotify_auth /= "ok"
    THEN [pc |-> "exited",
          boot |-> [exit_code |-> Some(1), spotify_auth_calls |-> 1,
                    login_calls |-> 0, inputs |-> in,
                    zone_known |-> TRUE]]
    ELSE [pc |-> "loop",
          boot |-> [exit_code |-> None, spotify_auth_calls |-> 1,
                    login_calls |-> 1, inputs |-> in,
                    zone_known |-> TRUE]]

\* main.py lines 101-138: where main() is after the configuration was read,
\* Spotify was set up and the first login was made; sys.exit(1) raises
\* SystemExit, which no handler of the program catches
startup(username_set, spotify_auth, lg) ==
    LET in == <<username_set, spotify_auth, lg>> IN
    IF ~username_set
    THEN [pc |-> "exited",
          boot |-> [exit_code |-> Some(1), spotify_auth_calls |-> 0,
                    login_calls |-> 0, inputs |-> in,
                    zone_known |-> TRUE]]
    ELSE IF spotify_auth /= "ok"
    THEN [pc |-> "exited",
          boot |-> [exit_code |-> Some(1), spotify_auth_calls |-> 1,
                    login_calls |-> 0, inputs |-> in,
                    zone_known |-> TRUE]]
    ELSE IF login_instagram(lg).raised
    THEN [pc |-> "exited",
          boot |-> [exit_code |-> Some(1), spotify_auth_calls |-> 1,
                    login_calls |-> 1, inputs |-> in,
                    zone_known |-> TRUE]]
    ELSE [pc |-> "loop",
          boot |-> [exit_code |-> None, spotify_auth_calls |-> 1,
                    login_calls |-> 1, inputs |-> in,
                    zone_known |-> TRUE]]

\* main.py lines 101-142: configuration, Spotify authentication, first login
Startup ==
    /\ pc = "start"
    /\ \E username_set \in BOOLEAN, spotify_auth \in {"ok", "error"},
          lg \in LoginOutcomes, zone_known \in BOOLEAN :
        LET s == startup(username_set, spotify_auth, lg) IN
        /\ pc' = s.pc
        /\ boot' = [s.boot EXCEPT !.zone_known = zone_known]
        /\ next_poll_time' = IF s.pc = "loop" THEN now ELSE next_poll_time
    /\ prev_song_title' = None
    /\ prev_artist_name' = None
    /\ UNCHANGED <<now, note, published, polls, iter, last_poll_at, failed_track>>
    /\ UNCHANGED calcVars

\* main.py lines 147-150: not yet time to poll, sleep one second
Wait ==
    /\ pc = "loop"
    /\ ~PollDue(now, next_poll_time)
    /\ next_poll_time <= MaxTime * TicksPerSecond
    /\ polls < MaxPolls
    /\ now' = now + 1 * TicksPerSecond
    /\ iter' = IdleIter("wait")
    /\ UNCHANGED <<pc, boot, prev_song_title, prev_artist_name, next_poll_time,
                   note, published, polls, last_poll_at, failed_track>>
    /\ UNCHANGED calcVars

\* main.py lines 152-179 for one response of Spotify, the outcomes c1, lg, c2
\* of the Instagram calls, the random fallback (seconds) and the time lat that
\* passes before the next poll is scheduled.  raised_at names the call whose
\* exception reached the handler of line 175; an exception of line 178 leaves
\* main(), is logged in line 187, and the program ends.
Iteration(resp, c1, lg, c2, fallback, lat) ==
    LET obs        == get_current_song(resp)
        song_title == obs[1]
        artist_name == obs[2]
        has_track  == HasTrack(song_title, artist_name)
        changed    == has_track /\ SongChanged(song_title, artist_name,
                                               prev_song_title, prev_artist_name)
        pub        == IF changed
                      THEN update_instagram_note(StatusText(song_title, artist_name),
                                                 c1, lg, c2)
                      ELSE NoPublish
        assigns    == changed /\ ~pub.raised
        calc       == IF has_track
                      THEN calculate_next_poll_time(obs[3], obs[4])
                      ELSE [raised |-> FALSE, value |-> fallback * TicksPerSecond]
        t          == now + lat
        raised_at  == IF pub.raised THEN "update_instagram_note"
                      ELSE IF calc.raised THEN "calculate_next_poll_time"
                      ELSE IF get_azerbaijan_time(t + calc.value,
                                                  boot.zone_known).raised
                      THEN "get_azerbaijan_time"
                      ELSE ""
        first      == IF pub.raised \/ calc.raised THEN <<>>
                      ELSE <<t + calc.value>>
        interval   == IF raised_at /= "" THEN 60 * TicksPerSecond ELSE calc.value
        assigned   == IF raised_at /= "" THEN Append(first, t + interval) ELSE first
        crashed    == /\ raised_at /= ""
                      /\ get_azerbaijan_time(t + interval, boot.zone_known).raised
        observed   == <<song_title, artist_name>>
        remembered == Remember(assigns, observed,
                               <<prev_song_title, prev_artist_name>>)
    IN  /\ prev_song_title' = remembered[1]
        /\ prev_artist_name' = remembered[2]
        /\ note' = IF pub.status_set THEN pub.text ELSE note
        /\ published' = IF pub.status_set THEN observed ELSE published
        /\ next_poll_time' = assigned[Len(assigned)]
        /\ now' = t
        /\ polls' = polls + 1
        /\ last_poll_at' = Some(t)
        /\ failed_track' = IF changed /\ ~pub.status_set THEN observed
                           ELSE <<None, None>>
        /\ pc' = IF crashed THEN "exited" ELSE pc
        /\ boot' = IF crashed THEN [boot EXCEPT !.exit_code = Some(0)] ELSE boot
        /\ iter' = [kind |-> IF crashed THEN "crash"
                             ELSE IF raised_at /= "" THEN "error" ELSE "poll",
                    resp_kind |-> resp.kind, obs |-> obs,
                    called |-> changed,
                    inputs |-> IF changed THEN <<c1, lg, c2>> ELSE <<>>,
                    pub |-> pub, interval |-> interval,
                    prev_before |-> <<prev_song_title, prev_artist_name>>,
                    published_before |-> published,
                    current_time |-> now, scheduled_at |-> t,
                    due |-> now >= next_poll_time,
                    assigned |-> assigned,
                    increases |-> [i \in 1..Len(assigned) |->
                                     assigned[i] > (IF i = 1 THEN next_poll_time
                                                    ELSE assigned[i - 1])],
                    raised_at |-> raised_at,
                    advanced |-> assigned[Len(assigned)] > next_poll_time,
                    since_last |-> IF last_poll_at = None THEN None
                                   ELSE Some(now - last_poll_at[1]),
                    failed_before |-> failed_track]

\* main.py lines 145-179: an iteration of the loop whose poll time has come
Poll ==
    /\ pc = "loop"
    /\ PollDue(now, next_poll_time)
    /\ polls < MaxPolls
    /\ \E resp \in Responses, lat \in {Latency} :
        LET obs == get_current_song(resp) IN
        IF HasTrack(obs[1], obs[2])
        THEN IF SongChanged(obs[1], obs[2], prev_song_title, prev_artist_name)
             THEN \E in \in PublishInputs :
                     Iteration(resp, in[1], in[2], in[3], 0, lat)
             ELSE Iteration(resp, "ok", "ok", "ok", 0, lat)
        ELSE \E fallback \in FallbackChoices :
                Iteration(resp, "ok", "ok", "ok", fallback, lat)
    /\ UNCHANGED calcVars

Next == Startup \/ Wait \/ Poll

Spec == Init /\ [][Next]_vars

----------------------------------------------------------------------------
(* calculate_next_poll_time on its own: one duration, two progress values *)

CalcInit ==
    /\ MainInit
    /\ calc_pc = "ready"
    /\ calc_duration \in {Some(d) : d \in DurationsMs} \cup {None}
    /\ calc_p1 \in {Some(p) : p \in ProgressMs} \cup {None}
    /\ calc_p2 \in {Some(p) : p \in ProgressMs} \cup {None}
    /\ calc_r1 = None
    /\ calc_r2 = None
    /\ calc_fallback = None

CalcApply ==
    /\ calc_pc = "ready"
    /\ calc_r1' = calculate_next_poll_time(calc_duration, calc_p1)
    /\ calc_r2' = calculate_next_poll_time(calc_duration, calc_p2)
    /\ calc_pc' = "done"
    /\ UNCHANGED <<calc_duration, calc_p1, calc_p2, calc_fallback>>
    /\ UNCHANGED mainVars

CalcNext == CalcApply

CalcSpec == CalcInit /\ [][CalcNext]_vars

----------------------------------------------------------------------------
(* The two delays of main(): the one of a track and the fallback *)

\* ten minutes, in milliseconds: twice the adaptive delay of a track with
\* twenty minutes left
LongStepMs == 10 * 60 * 1000

LongDurationsMs ==
    {d \in {k * LongStepMs + e : k \in 0..MaxLongSteps, e \in {-1, 0, 1}} : d >= 0}

DelayInit ==
    /\ MainInit
    /\ calc_pc = "ready"
    /\ calc_duration \in {Some(d) : d \in LongDurationsMs}
    /\ calc_p1 \in {Some(p) : p \in {0, 1, LongStepMs}}
    /\ calc_p2 = None
    /\ calc_fallback \in {Some(f) : f \in FallbackChoices}
    /\ calc_r1 = None
    /\ calc_r2 = None

\* lines 165 and 168: the delay of a poll that saw the track, and the delay
\* of a poll that saw none
DelayApply ==
    /\ calc_pc = "ready"
    /\ calc_r1' = calculate_next_poll_time(calc_duration, calc_p1)
    /\ calc_r2' = [raised |-> FALSE, value |-> calc_fallback[1] * TicksPerSecond]
    /\ calc_pc' = "done"
    /\ UNCHANGED <<calc_duration, calc_p1, calc_p2, calc_fallback>>
    /\ UNCHANGED mainVars

DelayNext == DelayApply

DelaySpec == DelayInit /\ [][DelayNext]_vars

----------------------------------------------------------------------------
(* Properties *)

\* the state is the one a poll iteration has just left
Polled == pc = "loop" /\ iter.kind \in {"poll", "error"}

NoTrack == <<None, None, None, None>>

ObservedTrack == <<iter.obs[1], iter.obs[2]>>

PublishedState == <<prev_song_title, prev_artist_name>>

\* the number of calls of client method name in a call sequence
Count(calls, name) == Cardinality({i \in 1..Len(calls) : calls[i][1] = name})

\* the iteration called update_instagram_note and the status was not set
PublishFailed == Polled /\ iter.called /\ ~iter.pub.status_set

\* C1: PublishedState is the (title, artist) of the most recent successful
\* publish, (None, None) if there was none, and an iteration whose publish
\* fails leaves PublishedState as it was before the iteration.
C1_PublishedStateIsLastSuccess ==
    pc = "loop" =>
        /\ PublishedState = published
        /\ (PublishFailed => PublishedState = iter.prev_before)

\* C2: in a poll iteration that observes a track, update_instagram_note is
\* called if and only if the track differs from the one of the last successful
\* publish.
C2_PublishIffDiffersFromLastSuccess ==
    (Polled /\ iter.obs /= NoTrack) =>
        (iter.called <=> ObservedTrack /= iter.published_before)

\* C3, as stated: when the first create_note raises LoginRequired,
\* login_instagram is called exactly once and create_note is retried exactly
\* once, and no call makes more than 2 create_note calls or more than 1 login.
C3_OneLoginOneRetry ==
    (Polled /\ iter.called) =>
        /\ Count(iter.pub.calls, "create_note") <= 2
        /\ Count(iter.pub.calls, "login") <= 1
        /\ (iter.inputs[1] = "LoginRequired" =>
                /\ Count(iter.pub.calls, "login") = 1
                /\ Count(iter.pub.calls, "create_note") = 2)

\* C3, amended: when the first create_note raises LoginRequired,
\* login_instagram is called exactly once; create_note is retried exactly once
\* if that login succeeds and not at all if it fails; nothing follows the
\* retry, whatever its outcome; no call makes more than 2 create_note calls or
\* more than 1 login.
C3_OneLoginRetryIfLoggedIn ==
    (Polled /\ iter.called) =>
        LET calls == iter.pub.calls IN
        /\ Count(calls, "create_note") <= 2
        /\ Count(calls, "login") <= 1
        /\ calls[1] = <<"create_note", iter.inputs[1]>>
        /\ (iter.inputs[1] = "LoginRequired" =>
                /\ Count(calls, "login") = 1
                /\ calls[2] = <<"login", iter.inputs[2]>>
                /\ IF iter.inputs[2] = "ok"
                   THEN calls = <<calls[1], calls[2], <<"create_note", iter.inputs[3]>> >>
                   ELSE calls = <<calls[1], calls[2]>>)

\* the first create_note raised LoginRequired, the login succeeded and the
\* retried create_note raised LoginRequired again
C3_Witness ==
    Polled /\ iter.called
    /\ iter.inputs = <<"LoginRequired", "ok", "LoginRequired">>
    /\ Len(iter.pub.calls) = 3

\* C4: whenever the status was not set, the caller of update_instagram_note
\* receives an outcome (return value or exception) that differs from the
\* outcome of a successful publish, which is: returns None, raises nothing.
C4_FailureIsReported ==
    PublishFailed => <<iter.pub.ret, iter.pub.raised>> /= <<None, FALSE>>

\* C5: when create_note fails with an error other than LoginRequired, there is
\* no login and no second create_note: exactly one create_note call is made.
C5_OtherErrorNoRetry ==
    (Polled /\ iter.called /\ iter.inputs[1] \notin {"ok", "LoginRequired"}) =>
        /\ iter.pub.calls = << <<"create_note", iter.inputs[1]>> >>
        /\ ~iter.pub.status_set
        /\ note = IF iter.published_before = <<None, None>> THEN ""
                  ELSE StatusText(iter.published_before[1], iter.published_before[2])

C5_Witness ==
    Polled /\ iter.called /\ iter.inputs[1] = "Error" /\ Len(iter.pub.calls) = 1

\* C6: for a changed track, if the first create_note raises LoginRequired, the
\* re-login succeeds and the retried create_note succeeds, the status is set by
\* the second create_note and PublishedState is the observed (title, artist)
\* at the end of the iteration.
C6_ReloginThenSuccess ==
    (Polled /\ iter.called /\ iter.inputs = <<"LoginRequired", "ok", "ok">>) =>
        /\ iter.pub.status_set
        /\ iter.pub.calls[3] = <<"create_note", "ok">>
        /\ note = StatusText(iter.obs[1], iter.obs[2])
        /\ published = ObservedTrack
        /\ PublishedState = ObservedTrack

C6_Witness ==
    Polled /\ iter.called /\ iter.inputs = <<"LoginRequired", "ok", "ok">>
    /\ iter.pub.status_set /\ PublishedState = ObservedTrack
    /\ iter.prev_before /= <<None, None>>

\* C7: a poll iteration in which get_current_song returns the no-track result
\* does not call update_instagram_note: no client call is made, the note and
\* PublishedState stay as they were.
C7_NoTrackNoPublish ==
    (Polled /\ iter.obs = NoTrack) =>
        /\ ~iter.called
        /\ iter.pub.calls = <<>>
        /\ PublishedState = iter.prev_before
        /\ published = iter.published_before

\* the second of two consecutive no-track polls, after a published track
C7_Witness ==
    Polled /\ iter.obs = NoTrack /\ polls = 3 /\ ~iter.called
    /\ iter.current_time >= 10 * 60 * TicksPerSecond
    /\ published /= <<None, None>>

\* C8, as stated: for an observation with (duration_ms, progress_ms) =
\* (None, None) the delay applied to the next poll is the constant 900 seconds.
C8_FallbackIsConstant ==
    (Polled /\ iter.obs[3] = None /\ iter.obs[4] = None) =>
        /\ iter.interval = 900 * TicksPerSecond
        /\ next_poll_time = iter.scheduled_at + 900 * TicksPerSecond

\* C8, amended: for the no-track result the delay applied to the next poll is
\* a whole number of seconds in [600, 1200], drawn anew in every such
\* iteration; the constant 900 seconds of calculate_next_poll_time(None, None)
\* is applied only when a track is observed without duration and progress.
C8_FallbackInRange ==
    (Polled /\ iter.obs[3] = None /\ iter.obs[4] = None) =>
        /\ next_poll_time = iter.scheduled_at + iter.interval
        /\ IF iter.obs = NoTrack
           THEN /\ iter.interval % TicksPerSecond = 0
                /\ iter.interval >= 600 * TicksPerSecond
                /\ iter.interval <= 1200 * TicksPerSecond
           ELSE iter.interval = 900 * TicksPerSecond

\* a no-track poll whose delay is not 900 seconds
C8_Witness ==
    Polled /\ iter.obs = NoTrack /\ iter.interval = 600 * TicksPerSecond

\* C9: for duration_ms and progress_ms >= 0, calculate_next_poll_time returns
\* max((duration_ms - progress_ms) / 2000, 30) seconds, which is never below
\* 30 seconds, also when progress_ms > duration_ms.  (value is in ticks of
\* 1/TicksPerSecond second; both sides are multiplied by 2000 * TicksPerSecond.)
C9_DelayIsHalfRemainingOrFloor ==
    (calc_pc = "done" /\ calc_duration /= None /\ calc_p1 /= None) =>
        /\ ~calc_r1.raised
        /\ calc_r1.value * 2000 =
              Max((calc_duration[1] - calc_p1[1]) * TicksPerSecond,
                  30 * 2000 * TicksPerSecond)
        /\ calc_r1.value >= 30 * TicksPerSecond

\* a delay above the floor, of a whole number of milliseconds plus a half
C9_Witness ==
    /\ calc_pc = "done" /\ calc_duration /= None /\ calc_p1 /= None
    /\ calc_p1[1] <= calc_duration[1]
    /\ calc_r1.value > 30 * TicksPerSecond
    /\ calc_r1.value % TicksPerMs = 1

\* C10, as stated: for a fixed duration and progress values p1 < p2 <=
\* duration the delay for p2 is strictly smaller than the delay for p1.
C10_StrictlyDecreasing ==
    (calc_pc = "done" /\ calc_duration /= None /\ calc_p1 /= None /\ calc_p2 /= None
     /\ calc_p1[1] < calc_p2[1] /\ calc_p2[1] <= calc_duration[1]) =>
        calc_r2.value < calc_r1.value

\* C10, amended: for a fixed duration and progress values p1 < p2 <= duration
\* the delay for p2 is never larger than the delay for p1, and it is strictly
\* smaller whenever the delay for p1 is above the 30 second floor.
C10_NonIncreasing ==
    (calc_pc = "done" /\ calc_duration /= None /\ calc_p1 /= None /\ calc_p2 /= None
     /\ calc_p1[1] < calc_p2[1] /\ calc_p2[1] <= calc_duration[1]) =>
        /\ calc_r2.value <= calc_r1.value
        /\ (calc_r1.value > 30 * TicksPerSecond => calc_r2.value < calc_r1.value)

\* two progress values of one track with both delays above the floor
C10_Witness ==
    /\ calc_pc = "done" /\ calc_duration /= None /\ calc_p1 /= None /\ calc_p2 /= None
    /\ calc_p1[1] < calc_p2[1] /\ calc_p2[1] <= calc_duration[1]
    /\ calc_r2.value > 30 * TicksPerSecond
    /\ calc_r2.value < calc_r1.value

\* an iteration of the loop that polled, whatever became of it
Iterated == iter.kind \in {"poll", "error", "crash"}

\* the delay the iteration had to compute from what it observed
DelayOf(obs) == calculate_next_poll_time(obs[3], obs[4]).value

\* C11, as stated: once the loop was entered no exception of an iteration
\* ends the process; the exception is caught, next_poll_time becomes the time
\* of the handler plus 60 seconds, and the loop goes on.
C11_LoopNeverTerminates ==
    /\ (polls > 0 => pc = "loop")
    /\ (iter.raised_at /= "" =>
            /\ pc = "loop"
            /\ next_poll_time = iter.scheduled_at + 60 * TicksPerSecond)

\* C12: without SPOTIFY_USERNAME the process exits non-zero before any
\* authentication; a failed first login (challenge and two-factor included)
\* exits non-zero after exactly one login; the loop, and with it every
\* observe and publish call, is reached only after a successful first login.
C12_StartupFailuresAreFatal ==
    /\ (boot.inputs = <<>> => pc = "start" /\ polls = 0)
    /\ (boot.inputs /= <<>> =>
        LET username_set == boot.inputs[1]
            spotify_auth == boot.inputs[2]
            lg           == boot.inputs[3]
            failed       == /\ pc = "exited" /\ polls = 0
                            /\ boot.exit_code /= None /\ boot.exit_code[1] /= 0
        IN  /\ (~username_set =>
                    failed /\ boot.spotify_auth_calls = 0 /\ boot.login_calls = 0)
            /\ ((username_set /\ spotify_auth = "ok" /\ lg /= "ok") =>
                    failed /\ boot.login_calls = 1)
            /\ ((pc = "loop" \/ polls > 0) =>
                    /\ username_set /\ spotify_auth = "ok" /\ lg = "ok"
                    /\ boot.login_calls = 1 /\ boot.exit_code \in {None, Some(0)}))

\* the first login met a challenge and the process is over
C12_Witness ==
    /\ pc = "exited" /\ boot.inputs = <<TRUE, "ok", "ChallengeRequired">>
    /\ boot.login_calls = 1 /\ boot.exit_code = Some(1) /\ polls = 0

\* C13: an iteration polls only if its current time is at least
\* next_poll_time; an iteration before that time sleeps one second, calls
\* nothing, and leaves PublishedState and next_poll_time alone; after a
\* completed poll next_poll_time is the time of scheduling plus the delay
\* computed for what was observed.
C13_PollOnlyWhenDue ==
    /\ (Iterated => iter.due /\ iter.current_time >= 0)
    /\ (iter.kind = "wait" =>
            /\ ~iter.due
            /\ now = iter.current_time + 1 * TicksPerSecond
            /\ iter.current_time < next_poll_time
            /\ ~iter.called /\ iter.pub.calls = <<>> /\ iter.assigned = <<>>
            /\ PublishedState = iter.prev_before
            /\ published = iter.published_before)
    /\ (iter.kind = "poll" =>
            /\ next_poll_time = iter.scheduled_at + iter.interval
            /\ IF HasTrack(iter.obs[1], iter.obs[2])
               THEN iter.interval = DelayOf(iter.obs)
               ELSE iter.interval \in {f * TicksPerSecond : f \in FallbackChoices})

\* a second poll, made when its time had come after a row of sleeps
C13_Witness ==
    /\ iter.kind = "poll" /\ polls = 2 /\ iter.due
    /\ iter.since_last /= None /\ iter.since_last[1] >= 30 * TicksPerSecond
    /\ next_poll_time = iter.scheduled_at + iter.interval

\* C14, as stated: whatever the Spotify client does that is not a proper
\* track - raise, return None, return no item, return missing or malformed
\* fields - get_current_song returns (None, None, None, None) and the
\* iteration does not enter the recovery handler for it.
C14_FailuresAreNoTrack ==
    (Iterated /\ iter.resp_kind /= "track") =>
        /\ iter.obs = NoTrack
        /\ iter.raised_at \notin {"update_instagram_note", "calculate_next_poll_time"}

\* C15, as stated: the poll after a failed publish of track X that observes X
\* again calls update_instagram_note again.
C15_FailedPublishRetried ==
    (Iterated /\ iter.failed_before /= <<None, None>>
     /\ ObservedTrack = iter.failed_before) => iter.called

\* C16: a re-login that fails inside a publish of the loop, by a challenge
\* or a two-factor demand as by anything else, is absorbed by
\* update_instagram_note: the handler of the loop is not entered for it, the
\* process goes on and the delay is the adaptive one of the track; a first
\* login that fails so ends the process.
C16_ReloginFailureAbsorbed ==
    /\ (Iterated /\ iter.called /\ iter.inputs[1] = "LoginRequired"
        /\ iter.inputs[2] /= "ok") =>
            /\ ~iter.pub.raised /\ ~iter.pub.status_set
            /\ iter.raised_at /= "update_instagram_note"
            /\ (iter.raised_at = "" =>
                    /\ pc = "loop" /\ iter.kind = "poll"
                    /\ iter.interval = DelayOf(iter.obs)
                    /\ next_poll_time = iter.scheduled_at + iter.interval)
    /\ (boot.inputs /= <<>> /\ boot.inputs[1] /\ boot.inputs[2] = "ok"
        /\ boot.inputs[3] \in {"ChallengeRequired", "TwoFactorRequired"}) =>
            pc = "exited" /\ polls = 0 /\ boot.exit_code = Some(1)

\* a publish of the loop whose re-login met a challenge, and the loop goes on
C16_Witness ==
    /\ pc = "loop" /\ iter.kind = "poll" /\ iter.called
    /\ iter.inputs[1] = "LoginRequired" /\ iter.inputs[2] = "ChallengeRequired"
    /\ Count(iter.pub.calls, "login") = 1

\* the responses for which nothing is playing, and those of a failed fetch
EmptyResponses == {r \in Responses : r.kind \in {"none", "no_item"}}

UnknownResponses == {r \in Responses : r.kind \in {"raise", "missing"}}

\* C17, as stated: what get_current_song returns when nothing is playing
\* differs from what it returns when the fetch failed.
C17_EmptyDiffersFromUnknown ==
    (Iterated /\ iter.resp_kind \in {"none", "no_item"}) =>
        \A r \in UnknownResponses : get_current_song(r) /= iter.obs

\* C18, as stated: for 0 <= progress_ms <= duration_ms the fallback delay is
\* longer than the delay calculate_next_poll_time returns.
C18_FallbackLongerThanAdaptive ==
    (calc_pc = "done" /\ calc_fallback /= None
     /\ 0 <= calc_p1[1] /\ calc_p1[1] <= calc_duration[1]) =>
        calc_r2.value > calc_r1.value

\* C18, amended: for 0 <= progress_ms <= duration_ms the fallback delay of f
\* seconds is longer than the delay calculate_next_poll_time returns exactly
\* when less than 2 * f seconds of the track remain; so every fallback delay
\* is longer for a track with less than 20 minutes left.
C18_FallbackLongerIffShortRemainder ==
    (calc_pc = "done" /\ calc_fallback /= None
     /\ 0 <= calc_p1[1] /\ calc_p1[1] <= calc_duration[1]) =>
        /\ (calc_r2.value > calc_r1.value) <=>
                (calc_duration[1] - calc_p1[1] < 2 * 1000 * calc_fallback[1])
        /\ (calc_duration[1] - calc_p1[1] < 2 * 1000 * 600 =>
                calc_r2.value > calc_r1.value)

\* a track with more than a minute and less than 20 minutes left
C18_Witness ==
    /\ calc_pc = "done" /\ calc_fallback /= None
    /\ 0 <= calc_p1[1] /\ calc_p1[1] <= calc_duration[1]
    /\ calc_duration[1] - calc_p1[1] > 2 * 1000 * 30
    /\ calc_duration[1] - calc_p1[1] < 2 * 1000 * 600
    /\ calc_r2.value > calc_r1.value

\* the delays of the three outcomes of a poll, and the time between the
\* scheduling of a poll and the next call of get_current_song
RateLimit ==
    /\ (Iterated /\ iter.since_last /= None) =>
            iter.since_last[1] >= 30 * TicksPerSecond
    /\ (iter.kind = "poll" =>
            IF HasTrack(iter.obs[1], iter.obs[2])
            THEN iter.interval >= 30 * TicksPerSecond
            ELSE iter.interval >= 600 * TicksPerSecond)
    /\ (iter.kind = "error" => iter.interval = 60 * TicksPerSecond)

\* C19, as stated: two consecutive calls of get_current_song are at least 30
\* seconds apart, and every value assigned to next_poll_time is larger than
\* the one it replaces.
C19_EveryAssignmentIncreases ==
    /\ RateLimit
    /\ (Iterated => \A i \in 1..Len(iter.increases) : iter.increases[i])

\* C19, amended: two consecutive calls of get_current_song are at least 30
\* seconds apart, and next_poll_time at the end of an iteration that polled
\* is larger than it was at the beginning of it.
C19_EveryPollAdvances ==
    /\ RateLimit
    /\ (Iterated => iter.advanced /\ iter.assigned /= <<>>)

\* a poll made exactly 30 seconds after the one before it was scheduled
C19_Witness ==
    /\ iter.kind = "poll" /\ iter.since_last = Some(30 * TicksPerSecond)
    /\ iter.advanced

\* what no iteration does: forget a remembered track, or publish the track
\* that is remembered
NeverForgets ==
    /\ (iter.prev_before /= <<None, None>> => PublishedState /= <<None, None>>)
    /\ ((Iterated /\ HasTrack(iter.obs[1], iter.obs[2])
         /\ ObservedTrack = iter.prev_before) => ~iter.called)

====
